---- MODULE Spec2Model ----
(***************************************************************************)
(* Model of phycontrib/template/gui.py: the template subtractor            *)
(* (subtract_templates) and the extraction methods of TemplateController.  *)
(* numpy arrays are sequences (1-based here, 0-based in the source; every  *)
(* index taken from the source is shifted where it is used).               *)
(***************************************************************************)
EXTENDS Integers, Sequences, FiniteSets, TLC

\* ------------------------------------------------------------------ bounds
MaxN == 2             \* rows of a trace buffer: 0..MaxN
MaxL == 3             \* samples of a template waveform: 1..MaxL
MaxSubSpikes == 2     \* spikes handed to one subtract_templates call
NChannels == 1        \* channels of the trace buffer and of the templates
MaxSpikes == 3        \* model.n_spikes: 0..MaxSpikes
NTemplates == 2       \* model.n_templates; template ids 0..NTemplates-1
MaxClusterId == 2     \* cluster ids 0..MaxClusterId
MaxNsf == 2           \* n_spikes_features: 1..MaxNsf
MaxSelected == 3      \* clusters handed to _get_template_features: 0..MaxSelected
MaxTraceSpikes == 2   \* spikes of the recording when traces are built
MaxTick == 5          \* spike times 0..MaxTick, intervals within 0..MaxTick+3

\* TemplateController.n_spikes_waveforms
n_spikes_waveforms == 100

\* Times are integers counted in ticks of half a sample period, so that
\* time * sample_rate is a multiple of 1/2 and round() meets its tie case.
sample_rate == [num |-> 1, den |-> 2]
Amplitudes == {1, 2}
StartTicks == {1}

VARIABLES
  heap,              \* the array objects alive: heap[ref] is a sequence of rows
  sub_args,          \* arguments of the last subtract_templates call
  sub_ret,           \* its outcome
  spike_templates,   \* model.spike_templates: template id of each spike
  spike_times,       \* model.spike_times, in ticks, sorted
  m_spike_clusters,  \* model.spike_clusters: the array read when the model loaded
  spike_clusters,    \* supervisor.clustering.spike_clusters: current membership
  new_cluster_id,    \* supervisor.clustering: the id the next new cluster gets
  n_samples_templates, \* model.n_samples_templates
  n_spikes_features, \* TemplateController.n_spikes_features
  ret                \* outcome of the last controller call

subvars == <<heap, sub_args, sub_ret>>
modelvars == <<spike_templates, spike_times, m_spike_clusters, n_samples_templates,
               n_spikes_features>>
clustering == <<spike_clusters, new_cluster_id>>
vars == <<heap, sub_args, sub_ret, spike_templates, spike_times, m_spike_clusters,
          spike_clusters, new_cluster_id, n_samples_templates, n_spikes_features, ret>>

NoCall == [op |-> "none"]

\* ------------------------------------------------------- Python primitives
Min(a, b) == IF a < b THEN a ELSE b
Max(a, b) == IF a > b THEN a ELSE b

\* model.spike_times, and so every slice of it, is sorted.
IsNonDecreasing(q) == \A i \in 1..(Len(q) - 1) : q[i] <= q[i + 1]

\* int(round(num / den)) for den > 0, Python 3: ties go to the even integer.
PyRound(num, den) ==
  LET q == num \div den
      r == num % den
  IN  IF 2 * r < den THEN q
      ELSE IF 2 * r > den THEN q + 1
      ELSE IF q % 2 = 0 THEN q ELSE q + 1

\* One bound of a Python slice over a sequence of length len: a negative
\* bound counts from the end, and the result is clamped to 0..len.
PyIndex(len, k) == IF k < 0 THEN Max(0, len + k) ELSE Min(len, k)

\* a[lo:hi] with 0-based Python bounds (possibly negative or out of range).
PySlice(a, lo, hi) ==
  LET l == PyIndex(Len(a), lo)
      h == PyIndex(Len(a), hi)
  IN  IF h <= l THEN <<>> ELSE SubSeq(a, l + 1, h)

\* The row range [l, h) that a[lo:hi] addresses (0-based, h >= l).
PySliceRange(len, lo, hi) ==
  LET l == PyIndex(len, lo)
      h == PyIndex(len, hi)
  IN  <<l, Max(l, h)>>

\* ------------------------------------------------------ subtract_templates
\* Row r (0-based) of the caller's trace buffer.
InputRow(r) == [c \in 1..NChannels |-> 10 * (r + 1) + c]
InputTraces(n) == [r \in 1..n |-> InputRow(r - 1)]

\* w[index]: the template waveform of one spike, n_samples_t rows.
Waveform(L) == [r \in 1..L |-> [c \in 1..NChannels |-> r + c - 1]]

\* x = w[index] * amplitudes[index]
Scale(wf, amp) == [r \in 1..Len(wf) |-> [c \in 1..NChannels |-> wf[r][c] * amp]]

\* traces.copy(): a new array object with the same rows.
TracesCopyAlias(h, ref) == <<h, ref>>
TracesCopy(h, ref) == <<Append(h, h[ref]), Len(h) + 1>>

\* t = int(round((st[index] - start) * sample_rate))
SpikeOffset(st, start) == PyRound((st - start) * sample_rate.num, sample_rate.den)

\* traces[sa:sb, :] -= x.  numpy broadcasts x over the target rows only when
\* x has as many rows as the target or exactly one row; otherwise it raises.
\* The outcome is [ok, rows].
InplaceSubtract(buf, sa, sb, x) ==
  LET rng == PySliceRange(Len(buf), sa, sb)
      m   == rng[2] - rng[1]
      p   == Len(x)
  IN  IF p # m /\ p # 1
      THEN [ok |-> FALSE, rows |-> buf]
      ELSE [ok |-> TRUE,
            rows |-> [r \in 1..Len(buf) |->
                       IF r - 1 >= rng[1] /\ r - 1 < rng[2]
                       THEN [c \in 1..NChannels |->
                              buf[r][c] - x[IF p = m THEN r - rng[1] ELSE 1][c]]
                       ELSE buf[r]]]

\* The body of the loop for one spike, on the rows of the working buffer.
SubtractOne(buf, L, t, amp) ==
  LET i  == L \div 2
      j  == L \div 2 + (L % 2)
      x  == Scale(Waveform(L), amp)
      sa == t - i
      sb == t + j
  IN  IF sa < 0
      THEN InplaceSubtract(buf, 0, sb, PySlice(x, -sa, Len(x)))
      ELSE IF sb > Len(buf)
      THEN InplaceSubtract(buf, sa, Len(buf), PySlice(x, 0, -(sb - Len(buf))))
      ELSE InplaceSubtract(buf, sa, sb, x)

\* for index in range(w.shape[0]): the loop from spike `index` (1-based) on.
\* It stops at the first spike whose subtraction raises.
RECURSIVE SubtractLoop(_, _, _)
SubtractLoop(buf, a, index) ==
  IF index > Len(a.spike_times)
  THEN [status |-> "returned", rows |-> buf, index |-> index]
  ELSE LET o == SubtractOne(buf, a.n_samples_t,
                            SpikeOffset(a.spike_times[index], a.start),
                            a.amplitudes[index])
       IN  IF o.ok THEN SubtractLoop(o.rows, a, index + 1)
           ELSE [status |-> "raised", rows |-> buf, index |-> index]

NoArgs == [traces |-> 0, start |-> 0, spike_times |-> <<>>, amplitudes |-> <<>>,
           n_samples_t |-> 1]
NoRet == [status |-> "none", traces |-> 0, index |-> 0]

\* Spike times that put the window anywhere from wholly before the buffer to
\* wholly after it.
SubTimes(n, L) == (0 - sample_rate.den * (L + 1)) .. (sample_rate.den * (n + L + 1))


\* One call of subtract_templates on a caller's buffer of n rows.
subtract_templates ==
  /\ sub_ret.status = "none"
  /\ \E n \in 0..MaxN, L \in 1..MaxL, k \in 0..MaxSubSpikes, start \in StartTicks :
      \E st \in [1..k -> SubTimes(n, L)], amp \in [1..k -> Amplitudes] :
        LET h0  == <<InputTraces(n)>>
            cp  == TracesCopy(h0, 1)
            a   == [traces |-> 1, start |-> start, spike_times |-> st,
                    amplitudes |-> amp, n_samples_t |-> L]
            o   == SubtractLoop(cp[1][cp[2]], a, 1)
        IN  /\ IsNonDecreasing(st)
            /\ heap' = [cp[1] EXCEPT ![cp[2]] = o.rows]
            /\ sub_args' = a
            /\ sub_ret' = [status |-> o.status, traces |-> cp[2], index |-> o.index]
            /\ UNCHANGED <<modelvars, clustering, ret>>

\* The caller drops the buffers and the outcome of the call.
SubDiscard ==
  /\ sub_ret.status # "none"
  /\ heap' = <<>>
  /\ sub_args' = NoArgs
  /\ sub_ret' = NoRet
  /\ UNCHANGED <<modelvars, clustering, ret>>

\* ------------------------------------------------- claims on the subtractor
\* The target window [sa, sb) of spike `index` of the last call.
WinLo(index) ==
  SpikeOffset(sub_args.spike_times[index], sub_args.start) - sub_args.n_samples_t \div 2
WinHi(index) == WinLo(index) + sub_args.n_samples_t
BufLen == Len(heap[sub_args.traces])
FullyOutside(index) == WinHi(index) <= 0 \/ WinLo(index) >= BufLen
Overlaps(index) == Max(0, WinLo(index)) < Min(BufLen, WinHi(index))

\* What the spikes index..end take from row r (0-based), channel c: amplitude
\* times template row r - sa for every spike whose clipped window holds r.
RECURSIVE Contribution(_, _, _)
Contribution(index, r, c) ==
  IF index > Len(sub_args.spike_times) THEN 0
  ELSE (IF r >= Max(0, WinLo(index)) /\ r < Min(BufLen, WinHi(index))
        THEN sub_args.amplitudes[index]
               * Waveform(sub_args.n_samples_t)[r - WinLo(index) + 1][c]
        ELSE 0) + Contribution(index + 1, r, c)

\* C1: a spike whose window lies wholly before row 0 or wholly at/after row n
\* never makes the call raise, and a call with only such a spike returns the
\* input rows.
C1_OutsideContributesNothing ==
  /\ sub_ret.status = "raised" => ~FullyOutside(sub_ret.index)
  /\ (sub_ret.status = "returned" /\ Len(sub_args.spike_times) = 1 /\ FullyOutside(1))
       => heap[sub_ret.traces] = heap[sub_args.traces]

\* C2: a spike whose window overlaps the buffer never makes the call raise,
\* and a call that returns has changed exactly the rows of the clipped
\* windows, each by amplitude * template row (r - (t - i_len)).
C2_ClippedSubtraction ==
  /\ sub_ret.status = "raised" => ~Overlaps(sub_ret.index)
  /\ sub_ret.status = "returned" =>
       \A r \in 1..BufLen : \A c \in 1..NChannels :
         heap[sub_ret.traces][r][c]
           = heap[sub_args.traces][r][c] - Contribution(1, r - 1, c)

\* C9: after a call, returned or raised, the caller's buffer holds the rows
\* it held before; the returned buffer is another object, and equals the
\* input when there are no spikes.
C9_InputNotMutated ==
  sub_ret.status # "none" =>
    /\ heap[sub_args.traces] = InputTraces(BufLen)
    /\ sub_ret.status = "returned" => sub_ret.traces # sub_args.traces
    /\ (sub_ret.status = "returned" /\ Len(sub_args.spike_times) = 0)
         => heap[sub_ret.traces] = heap[sub_args.traces]

\* A call that raised at its second spike after the first one had already
\* been subtracted from the working buffer.
C9_Witness ==
  /\ sub_ret.status = "raised"
  /\ sub_ret.index = 2
  /\ heap[sub_ret.traces] # InputTraces(BufLen)

\* -------------------------------------------------- model and clustering
Templates == 0..(NTemplates - 1)
SpikeIds == 0..(Len(spike_templates) - 1)        \* 0-based, as in the source

\* model.similar_templates[ti, tj] (ti, tj 0-based template ids).
similar_templates(ti, tj) ==
  IF ti = tj THEN NTemplates ELSE IF ti > tj THEN ti - tj ELSE tj - ti

\* The ascending sequence of the elements of a finite set of integers.
RECURSIVE SortedSeq(_)
SortedSeq(S) ==
  IF S = {} THEN <<>>
  ELSE LET m == CHOOSE x \in S : \A y \in S : x <= y
       IN  <<m>> \o SortedSeq(S \ {m})

RECURSIVE SeqMax(_)
SeqMax(q) == IF Len(q) = 1 THEN q[1] ELSE Max(q[1], SeqMax(Tail(q)))

\* supervisor.clustering.cluster_ids: the ids in use, ascending.
cluster_ids == SortedSeq({spike_clusters[i] : i \in 1..Len(spike_clusters)})

\* supervisor.clustering.spikes_per_cluster[cluster_id]: a dict lookup, which
\* raises KeyError for an id that owns no spike.
HasCluster(c) == \E i \in 1..Len(spike_clusters) : spike_clusters[i] = c
spikes_per_cluster(c) ==
  SortedSeq({i - 1 : i \in {k \in 1..Len(spike_clusters) : spike_clusters[k] = c}})

\* get_template_counts: np.bincount(spike_templates[spike_ids],
\* minlength=n_templates); entry t + 1 counts template t.
get_template_counts(c) ==
  LET ids == spikes_per_cluster(c)
  IN  [t \in 1..NTemplates |->
        Cardinality({k \in 1..Len(ids) : spike_templates[ids[k] + 1] = t - 1})]

\* np.nonzero(counts)[0]: the 0-based indices of the nonzero entries.
Nonzero(counts) == SortedSeq({t - 1 : t \in {u \in 1..Len(counts) : counts[u] # 0}})

\* get_template_for_cluster: np.unique(..., return_counts=True) then
\* np.argmax(counts), which raises on an empty array and otherwise picks the
\* first (smallest) template id among those with the highest count.
get_template_for_cluster(c) ==
  LET counts == get_template_counts(c)
      used   == Nonzero(counts)
  IN  IF Len(used) = 0 THEN [ok |-> FALSE, template |-> 0]
      ELSE [ok |-> TRUE,
            template |-> CHOOSE t \in Templates :
                           /\ counts[t + 1] = SeqMax(counts)
                           /\ \A u \in Templates : counts[u + 1] = SeqMax(counts) => t <= u]

\* ---------------------------------------------------------------- similarity
\* sims = np.max(similar_templates[temp_i, :], axis=0); entry tj + 1.
Sims(temp_i) ==
  [tj \in 1..NTemplates |->
     SeqMax([k \in 1..Len(temp_i) |-> similar_templates(temp_i[k], tj - 1)])]

\* _sim_ij(cj)
SimIj(sims, cj) ==
  IF cj < NTemplates THEN sims[cj + 1]
  ELSE LET temp_j == Nonzero(get_template_counts(cj))
       IN  SeqMax([k \in 1..Len(temp_j) |-> sims[temp_j[k] + 1]])

\* Insert e into a sequence sorted by descending score, before the first
\* entry that must follow it.
InsertAt(q, e, pos) == SubSeq(q, 1, pos - 1) \o <<e>> \o SubSeq(q, pos, Len(q))
InsertAfterEquals(q, e) ==
  InsertAt(q, e, 1 + Cardinality({k \in 1..Len(q) : q[k][2] >= e[2]}))
InsertBeforeEquals(q, e) ==
  InsertAt(q, e, 1 + Cardinality({k \in 1..Len(q) : q[k][2] > e[2]}))

\* sorted(out, key=itemgetter(1), reverse=True): descending by score, and the
\* sort stays stable under reverse=True, so equal scores keep the order of out.
RECURSIVE SortedReversedSlice(_)
SortedReversedSlice(out) ==
  IF Len(out) = 0 THEN <<>>
  ELSE InsertBeforeEquals(SortedReversedSlice(SubSeq(out, 1, Len(out) - 1)), out[Len(out)])
RECURSIVE SortedReverse(_)
SortedReverse(out) ==
  IF Len(out) = 0 THEN <<>>
  ELSE InsertAfterEquals(SortedReverse(SubSeq(out, 1, Len(out) - 1)), out[Len(out)])

\* similarity(cluster_id), for a cluster of the current clustering.
similarity ==
  /\ ret.op = "none"
  /\ \E cluster_id \in {c \in 0..MaxClusterId : HasCluster(c)} :
       LET temp_i == Nonzero(get_template_counts(cluster_id))
           sims   == Sims(temp_i)
           out    == [k \in 1..Len(cluster_ids) |->
                        <<cluster_ids[k], SimIj(sims, cluster_ids[k])>>]
       IN  ret' = [op |-> "similarity", cluster_id |-> cluster_id,
                   status |-> "returned", value |-> SortedReverse(out)]
  /\ UNCHANGED <<subvars, modelvars, clustering>>

\* ------------------------------------------------ waveforms and features
\* Selector.select_spikes([cluster_id], max_n[, batch_size]): all the spikes
\* of the cluster when there are at most max_n, else an evenly spread subset
\* of at most max_n of them.  The lookup of an absent cluster raises.
RECURSIVE EveryNth(_, _)
EveryNth(q, step) ==
  IF Len(q) = 0 THEN <<>>
  ELSE <<q[1]>> \o EveryNth(SubSeq(q, step + 1, Len(q)), step)
select_spikes(c, max_n) ==
  IF ~HasCluster(c) THEN [ok |-> FALSE, ids |-> <<>>]
  ELSE LET ids == spikes_per_cluster(c)
       IN  [ok |-> TRUE,
            ids |-> IF Len(ids) <= max_n THEN ids
                    ELSE EveryNth(ids, (Len(ids) + max_n - 1) \div max_n)]

\* model.get_template(template_id).channels
TemplateChannels(t) == <<t>>
\* model.get_waveforms(spike_ids, channel_ids): one snippet per spike.
ModelWaveforms(ids, channels) ==
  [k \in 1..Len(ids) |-> [spike |-> ids[k], channels |-> channels]]

\* get_best_channels(cluster_id)
get_best_channels(c) ==
  IF ~HasCluster(c) THEN [ok |-> FALSE, error |-> "KeyError", channels |-> <<>>]
  ELSE LET tpl == get_template_for_cluster(c)
       IN  IF ~tpl.ok THEN [ok |-> FALSE, error |-> "ValueError", channels |-> <<>>]
           ELSE [ok |-> TRUE, error |-> "", channels |-> TemplateChannels(tpl.template)]

\* _get_waveforms(cluster_id), for any cluster id, in use or not.
GetWaveforms ==
  /\ ret.op = "none"
  /\ \E cluster_id \in 0..MaxClusterId :
       LET sel == select_spikes(cluster_id, n_spikes_waveforms)
           ch  == get_best_channels(cluster_id)
       IN  ret' = IF ~sel.ok
                  THEN [op |-> "waveforms", cluster_id |-> cluster_id,
                        status |-> "raised", error |-> "KeyError"]
                  ELSE IF ~ch.ok
                  THEN [op |-> "waveforms", cluster_id |-> cluster_id,
                        status |-> "raised", error |-> ch.error]
                  ELSE [op |-> "waveforms", cluster_id |-> cluster_id,
                        status |-> "returned",
                        value |-> [data |-> ModelWaveforms(sel.ids, ch.channels),
                                   spike_ids |-> sel.ids,
                                   channel_ids |-> ch.channels]]
  /\ UNCHANGED <<subvars, modelvars, clustering>>

\* np.arange(0, stop, step) for step >= 1.
Arange(stop, step) == [k \in 1..((stop + step - 1) \div step) |-> (k - 1) * step]

\* The value of cluster_id=None (no cluster id is negative).
None == -1

\* _get_spike_ids(cluster_id): the result [ok, ids]; cluster_id None is the
\* background case.
get_spike_ids(cluster_id) ==
  LET nsf == n_spikes_features
  IN  IF cluster_id = None
      THEN LET ns == Len(spike_templates)
           IN  [ok |-> TRUE, ids |-> Arange(ns, Max(1, ns \div nsf))]
      ELSE select_spikes(cluster_id, nsf)

GetSpikeIds ==
  /\ ret.op = "none"
  /\ \E cluster_id \in {None} \cup (0..MaxClusterId) :
       LET r == get_spike_ids(cluster_id)
       IN  ret' = IF r.ok
                  THEN [op |-> "spike_ids", cluster_id |-> cluster_id,
                        status |-> "returned", value |-> r.ids]
                  ELSE [op |-> "spike_ids", cluster_id |-> cluster_id,
                        status |-> "raised", error |-> "KeyError"]
  /\ UNCHANGED <<subvars, modelvars, clustering>>

\* ------------------------------------------------------- template features
\* model.get_template_features(spike_ids): a row per spike, a column per
\* template.
template_feature(s, t) == (2 * s + t) % 3
ModelTemplateFeatures(ids) ==
  [k \in 1..Len(ids) |-> [t \in 1..NTemplates |-> template_feature(ids[k], t - 1)]]

\* Rationals <<num, den>> with den > 0.
RatLeq(a, b) == a[1] * b[2] <= b[1] * a[2]
RatMin2(a, b) == IF RatLeq(a, b) THEN a ELSE b
RatMax2(a, b) == IF RatLeq(a, b) THEN b ELSE a
RECURSIVE RatMin(_)
RatMin(q) == IF Len(q) = 1 THEN q[1] ELSE RatMin2(q[1], RatMin(Tail(q)))
RECURSIVE RatMax(_)
RatMax(q) == IF Len(q) = 1 THEN q[1] ELSE RatMax2(q[1], RatMax(Tail(q)))

RECURSIVE SeqSum(_)
SeqSum(q) == IF Len(q) = 0 THEN 0 ELSE q[1] + SeqSum(Tail(q))

\* np.average(t, weights=w, axis=1): per row, sum(t * w) / sum(w).
Average(t, w) ==
  [k \in 1..Len(t) |->
     <<SeqSum([i \in 1..Len(w) |-> t[k][i] * w[i]]), SeqSum(w)>>]

\* assert len(cluster_ids) == 2; clu0, clu1 = cluster_ids
\* (with assertions stripped, the unpacking into two names raises for the
\* same lengths, still before anything is selected or fetched).
TwoClustersLenient(ids) == Len(ids) >= 2
TwoClusters(ids) == Len(ids) = 2

\* The body of _get_template_features after the unpacking.
TemplateFeatureBundle(clu0, clu1) ==
  LET s0 == get_spike_ids(clu0).ids
      s1 == get_spike_ids(clu1).ids
      n0 == get_template_counts(clu0)
      n1 == get_template_counts(clu1)
      t0 == ModelTemplateFeatures(s0)
      t1 == ModelTemplateFeatures(s1)
      x0 == Average(t0, n0)
      y0 == Average(t0, n1)
      x1 == Average(t1, n0)
      y1 == Average(t1, n1)
  IN  [x0 |-> x0, y0 |-> y0, x1 |-> x1, y1 |-> y1,
       data_bounds |-> <<RatMin2(RatMin(x0), RatMin(x1)),
                         RatMin2(RatMin(y0), RatMin(y1)),
                         RatMax2(RatMax(y0), RatMax(y1)),
                         RatMax2(RatMax(y0), RatMax(y1))>>]

\* Sequences of distinct elements of S, of length len.
DistinctSeqs(S, len) ==
  {q \in [1..len -> S] : \A i, j \in 1..len : i # j => q[i] # q[j]}

\* _get_template_features(cluster_ids), as TemplateFeatureView would call it
\* with any number of selected clusters.  `calls` counts the spike selections
\* and feature fetches made before the call ended.
GetTemplateFeatures ==
  /\ ret.op = "none"
  /\ \E len \in 0..MaxSelected :
       \E ids \in DistinctSeqs({c \in 0..MaxClusterId : HasCluster(c)}, len) :
         ret' = IF ~TwoClusters(ids)
                THEN [op |-> "template_features", cluster_ids |-> ids,
                      status |-> "raised", error |-> "AssertionError", calls |-> 0]
                ELSE [op |-> "template_features", cluster_ids |-> ids,
                      status |-> "returned", calls |-> 4,
                      value |-> TemplateFeatureBundle(ids[1], ids[2])]
  /\ UNCHANGED <<subvars, modelvars, clustering>>

\* -------------------------------------------------------------- traces
\* supervisor.cluster_meta.get('group', c)
ClusterGroup(c) == "unsorted"
\* color_selector.get(c, cluster_ids=supervisor.selected, cluster_group=cg)
ColorOf(c, cg) == <<"color", c, cg>>

\* int(round(t * sample_rate)) for a time t in ticks.
SampleOf(t) == PyRound(t * sample_rate.num, sample_rate.den)

\* spike_times.searchsorted(t): the number of spikes before time t.
SearchSorted(t) == Cardinality({i \in 1..Len(spike_times) : spike_times[i] < t})

\* Skip partial spikes: the test that drops spike offset s of a slice of
\* s1 - s0 rows.
SkipSpike(s, k, slen) == s - k < 0 \/ s + k >= slen

\* for i in range(a, b): the clips of spikes i..b-1 (0-based), or the error
\* raised while resolving the channels of one of them.
RECURSIVE TraceClips(_, _, _, _)
TraceClips(i, b, s0, s1) ==
  IF i >= b THEN [ok |-> TRUE, error |-> "", clips |-> <<>>]
  ELSE LET t  == spike_times[i + 1]
           c  == m_spike_clusters[i + 1]
           cg == ClusterGroup(c)
           ch == get_best_channels(c)
           k  == n_samples_templates \div 2
           s  == SampleOf(t) - s0
           rest == TraceClips(i + 1, b, s0, s1)
       IN  IF ~ch.ok THEN [ok |-> FALSE, error |-> ch.error, clips |-> <<>>]
           ELSE IF ~rest.ok THEN rest
           ELSE IF SkipSpike(s, k, s1 - s0) THEN rest
           ELSE [ok |-> TRUE, error |-> "",
                 clips |-> <<[data |-> [rows |-> PySliceRange(s1 - s0, s - k, s + k),
                                        channels |-> ch.channels],
                              channel_ids |-> ch.channels,
                              start_sample |-> s + s0 - k,
                              cluster_id |-> c,
                              color |-> <<ColorOf(c, cg)>>]>> \o rest.clips]

\* _get_traces(interval) for an interval (lo, hi) in ticks.
GetTraces ==
  /\ ret.op = "none"
  /\ \E lo \in 0..(MaxTick + 2) : \E hi \in (lo + 1)..(MaxTick + 3) :
       LET a  == SearchSorted(lo)
           b  == SearchSorted(hi)
           s0 == SampleOf(lo)
           s1 == SampleOf(hi)
           r  == TraceClips(a, b, s0, s1)
       IN  ret' = IF r.ok
                  THEN [op |-> "traces", interval |-> <<lo, hi>>, status |-> "returned",
                        value |-> [data |-> <<s0, s1>>, waveforms |-> r.clips]]
                  ELSE [op |-> "traces", interval |-> <<lo, hi>>, status |-> "raised",
                        error |-> r.error]
  /\ UNCHANGED <<subvars, modelvars, clustering>>

\* A split or merge done through the supervisor between two calls: the spikes
\* of S move to a new cluster, in supervisor.clustering only.
Assign ==
  /\ ret.op = "none"
  /\ new_cluster_id <= MaxClusterId
  /\ \E S \in SUBSET (1..Len(spike_clusters)) :
       /\ S # {}
       /\ spike_clusters' = [i \in 1..Len(spike_clusters) |->
                               IF i \in S THEN new_cluster_id ELSE spike_clusters[i]]
  /\ new_cluster_id' = new_cluster_id + 1
  /\ UNCHANGED <<subvars, modelvars, ret>>

\* The caller is done with the outcome of the last controller call.
Discard ==
  /\ ret.op # "none"
  /\ ret' = NoCall
  /\ UNCHANGED <<subvars, modelvars, clustering>>

\* ------------------------------------------------- claims on similarity
\* The maximum of similar_templates over the pairs (active template of ci,
\* active template of cj).
MaxPairSimilarity(ci, cj) ==
  LET ai == {t \in Templates : get_template_counts(ci)[t + 1] # 0}
      aj == {t \in Templates : get_template_counts(cj)[t + 1] # 0}
      vs == {similar_templates(ti, tj) : ti \in ai, tj \in aj}
  IN  CHOOSE v \in vs : \A u \in vs : u <= v

\* Position of cluster id c in the iteration order cluster_ids.
IterPos(c) == CHOOSE k \in 1..Len(cluster_ids) : cluster_ids[k] = c

\* C4: the score reported for every current cluster cj is the maximum of
\* similar_templates over the active templates of the source and of cj.
C4_ScoreIsMaxOverActivePairs ==
  (ret.op = "similarity" /\ ret.status = "returned") =>
    \A k \in 1..Len(ret.value) :
      ret.value[k][2] = MaxPairSimilarity(ret.cluster_id, ret.value[k][1])

\* C5: the result lists every current cluster id exactly once (the source
\* included), scores never increase along it, and entries with equal scores
\* stand in the iteration order of cluster_ids.
C5_RankingStableDescending ==
  (ret.op = "similarity" /\ ret.status = "returned") =>
    /\ Len(ret.value) = Len(cluster_ids)
    /\ \A k \in 1..Len(cluster_ids) :
         Cardinality({i \in 1..Len(ret.value) : ret.value[i][1] = cluster_ids[k]}) = 1
    /\ \E i \in 1..Len(ret.value) : ret.value[i][1] = ret.cluster_id
    /\ \A i \in 1..Len(ret.value) : \A j \in (i + 1)..Len(ret.value) :
         /\ ret.value[i][2] >= ret.value[j][2]
         /\ ret.value[i][2] = ret.value[j][2]
              => IterPos(ret.value[i][1]) < IterPos(ret.value[j][1])

\* A ranking of three clusters in which two tie and one scores differently.
C5_Witness ==
  /\ ret.op = "similarity"
  /\ ret.status = "returned"
  /\ Len(ret.value) = 3
  /\ \E i, j \in 1..3 : i # j /\ ret.value[i][2] = ret.value[j][2]
  /\ \E i, j \in 1..3 : ret.value[i][2] # ret.value[j][2]

\* ------------------------------------- claims on waveforms and features
\* C7: _get_waveforms for a cluster without spikes returns empty data and
\* empty spike_ids and does not raise.
C7_EmptyClusterWaveforms ==
  (ret.op = "waveforms" /\ ~HasCluster(ret.cluster_id)) =>
    /\ ret.status = "returned"
    /\ ret.value.data = <<>>
    /\ ret.value.spike_ids = <<>>

\* C8: _get_spike_ids returns at most n_spikes_features indices, all in
\* [0, n_spikes) and strictly increasing; the background case returns
\* 0, stride, 2*stride, ... below n_spikes with stride = max(1, n_spikes / N),
\* which is empty when there are no spikes.
C8_AtMostNSpikeIds ==
  ret.op = "spike_ids" =>
    /\ ret.cluster_id = None =>
         /\ ret.status = "returned"
         /\ LET ns == Len(spike_templates)
                stride == Max(1, ns \div n_spikes_features)
            IN  /\ \A k \in 1..Len(ret.value) : ret.value[k] = (k - 1) * stride
                /\ Len(ret.value) * stride >= ns
                /\ ns = 0 => ret.value = <<>>
    /\ ret.status = "returned" =>
         /\ Len(ret.value) <= n_spikes_features
         /\ \A k \in 1..Len(ret.value) : ret.value[k] \in SpikeIds
         /\ \A k \in 1..(Len(ret.value) - 1) : ret.value[k] < ret.value[k + 1]

\* C10: _get_template_features with a number of cluster ids other than 2
\* fails before any spike selection or feature fetch; with exactly 2 ids (of
\* clusters in use) it returns a bundle with x0, y0, x1, y1 and the bounds.
C10_ExactlyTwoClusters ==
  ret.op = "template_features" =>
    /\ Len(ret.cluster_ids) # 2 => (ret.status = "raised" /\ ret.calls = 0)
    /\ Len(ret.cluster_ids) = 2 =>
         /\ ret.status = "returned"
         /\ DOMAIN ret.value = {"x0", "y0", "x1", "y1", "data_bounds"}
         /\ Len(ret.value.data_bounds) = 4

\* A call with three selected clusters, which raised.
C10_Witness ==
  /\ ret.op = "template_features"
  /\ Len(ret.cluster_ids) = 3
  /\ ret.status = "raised"

\* ------------------------------------------------------ claims on traces
\* The spikes (1-based) whose time lies in the interval of the last call.
InInterval(i) == ret.interval[1] <= spike_times[i] /\ spike_times[i] < ret.interval[2]
SliceOffset(i) == SampleOf(spike_times[i]) - SampleOf(ret.interval[1])
SliceLength == SampleOf(ret.interval[2]) - SampleOf(ret.interval[1])
HalfWidth == n_samples_templates \div 2
\* The full window [s - k, s + k) lies within [0, slice_length).
WindowFits(i) == SliceOffset(i) - HalfWidth >= 0 /\ SliceOffset(i) + HalfWidth <= SliceLength

\* Absolute start samples of the windows of the spikes i..n that are in the
\* interval and fit, in spike order.
RECURSIVE FittingStarts(_)
FittingStarts(i) ==
  IF i > Len(spike_times) THEN <<>>
  ELSE (IF InInterval(i) /\ WindowFits(i)
        THEN <<SampleOf(spike_times[i]) - HalfWidth>> ELSE <<>>) \o FittingStarts(i + 1)

\* C3: a clip is emitted for a spike of the interval if and only if its full
\* window [s - k, s + k) lies within [0, slice_length).
C3_ClipIffWindowFits ==
  (ret.op = "traces" /\ ret.status = "returned") =>
    [j \in 1..Len(ret.value.waveforms) |-> ret.value.waveforms[j].start_sample]
      = FittingStarts(1)

\* C6: every clip carries the cluster that owns its spike when the call is
\* made, and that cluster's channels.
C6_ClipsUseCurrentMembership ==
  (ret.op = "traces" /\ ret.status = "returned") =>
    \A j \in 1..Len(ret.value.waveforms) :
      \E i \in 1..Len(spike_times) :
        /\ InInterval(i)
        /\ ret.value.waveforms[j].start_sample = SampleOf(spike_times[i]) - HalfWidth
        /\ ret.value.waveforms[j].cluster_id = spike_clusters[i]
        /\ ret.value.waveforms[j].channel_ids = get_best_channels(spike_clusters[i]).channels

SubIdle ==
  /\ heap = <<>>
  /\ sub_args = NoArgs
  /\ sub_ret = NoRet

CtlIdle ==
  /\ spike_templates = <<>>
  /\ spike_times = <<>>
  /\ m_spike_clusters = <<>>
  /\ spike_clusters = <<>>
  /\ new_cluster_id = 0
  /\ n_samples_templates = 1
  /\ n_spikes_features = 1
  /\ ret = NoCall

SubInit == SubIdle /\ CtlIdle


SubNext == subtract_templates \/ SubDiscard

SpecSub == SubInit /\ [][SubNext]_vars

\* The state after TemplateController.__init__: the model's arrays are loaded
\* (spike_clusters may come from a spike_clusters.npy written by any tool)
\* and the supervisor starts from model.spike_clusters.
RegularTimes(n) == [i \in 1..n |-> sample_rate.den * i]

CtlLoad(n, st, sc) ==
  /\ spike_templates = st
  /\ m_spike_clusters = sc
  /\ spike_clusters = sc
  /\ new_cluster_id = (IF n = 0 THEN 0 ELSE SeqMax(sc) + 1)
  /\ ret = NoCall

SimInit ==
  /\ SubIdle
  /\ \E n \in 0..MaxSpikes :
       \E st \in [1..n -> Templates], sc \in [1..n -> 0..MaxClusterId] :
         IsNonDecreasing(st) /\ CtlLoad(n, st, sc) /\ spike_times = RegularTimes(n)
  /\ n_samples_templates = 1
  /\ n_spikes_features = 1

FeatInit ==
  /\ SubIdle
  /\ \E n \in 0..MaxSpikes :
       \E st \in [1..n -> Templates], sc \in [1..n -> 0..MaxClusterId] :
         IsNonDecreasing(st) /\ CtlLoad(n, st, sc) /\ spike_times = RegularTimes(n)
  /\ n_samples_templates = 1
  /\ n_spikes_features \in 1..MaxNsf

FeatNext == GetWaveforms \/ GetSpikeIds \/ GetTemplateFeatures \/ Discard

SpecFeat == FeatInit /\ [][FeatNext]_vars

TracesInit ==
  /\ SubIdle
  /\ \E n \in 0..MaxTraceSpikes :
       \E st \in [1..n -> Templates], sc \in [1..n -> 0..MaxClusterId],
          tm \in [1..n -> 0..MaxTick] :
         IsNonDecreasing(st) /\ IsNonDecreasing(tm) /\ CtlLoad(n, st, sc) /\ spike_times = tm
  /\ n_samples_templates \in 2..(MaxL + 2)
  /\ n_spikes_features = 1

TracesNext == GetTraces \/ Assign \/ Discard

SpecTraces == TracesInit /\ [][TracesNext]_vars

SimNext == similarity \/ Discard

SpecSim == SimInit /\ [][SimNext]_vars
====
